---- MODULE Spec2Model ----
(***************************************************************************)
(* The broadcast engine of src/broadcast.py: run_broadcast, the coordinator *)
(* task _run, the worker pool (_worker, _send_one_with_retry), the progress *)
(* reporter (_progress_sender), and the asyncio primitives they share       *)
(* (Queue with its unfinished-task count, Semaphore, Lock, Event).          *)
(*                                                                          *)
(* The tasks run on one event loop, so the code between two awaits that    *)
(* really suspend is one action.  queue.get() on a non-empty queue, an      *)
(* uncontended lock or semaphore acquire do not suspend; a transport,       *)
(* store or sink call and asyncio.sleep do.  Transport, store and sink      *)
(* calls answer nondeterministically.                                       *)
(***************************************************************************)
EXTENDS Integers, Sequences, FiniteSets

(* ---- bounds of the model ---- *)
MaxUsers == 4
MaxProgress == 2
MaxFaulty == 1

\* The users who write in the admin group or press the panel's buttons, and
\* the Broadcast prompts one user is followed through.
MaxPanelUsers == 2
MaxPrompts == 2

(* ---- program constants ---- *)
MAX_RETRY_AFTER_ATTEMPTS == 5

(* ---- program constants scaled down to the bounds of the model ---- *)
\* src/config.py sets BROADCAST_BATCH_SIZE and BROADCAST_MESSAGES_PER_SECOND
\* to 25 and run_broadcast sets progress_interval to 100.  The model runs the
\* same code with small values, so that a run of MaxUsers recipients fills
\* the pool and leaves a recipient for a worker to come back for, crosses a
\* multiple of the per-second budget and reaches the reporting threshold.
BROADCAST_BATCH_SIZE == 3
BROADCAST_MESSAGES_PER_SECOND == 2
progress_interval == 2

None == 0
Users == 1..MaxUsers
Workers == 1..BROADCAST_BATCH_SIZE
\* The reporter task, where it stands in line for state.lock.
Reporter == 0

\* What one transport call (copy_message, send_*) can answer:
\*   ok     the message was sent
\*   retry  RetryAfter
\*   perm   Forbidden/BadRequest whose text names a blocked/deactivated/
\*          not-found recipient
\*   other  Forbidden/BadRequest with any other text
\*   exc    any other exception (TimedOut, NetworkError, KeyError, ...)
TransportResults == {"ok", "retry", "perm", "other", "exc"}

\* A pool sized by the number of recipients alone.
Second(a, b) == b

Min(a, b) == IF a < b THEN a ELSE b

VARIABLES
    cpc,              \* coordinator: position in run_broadcast / _run
    user_ids,         \* params.user_ids
    use_copy,         \* source_chat_id and source_message_id are given
    has_payload,      \* params.payload is truthy
    queue,            \* asyncio.Queue: the entries not yet dequeued
    unfinished,       \* asyncio.Queue._unfinished_tasks
    sem,              \* asyncio.Semaphore._value
    success,          \* state.success
    failed,           \* state.failed
    batch_count,      \* state.batch_count
    pacing_sleeps,    \* the pacing sleeps the workers have begun
    last_progress_at, \* state.last_progress_at
    lockHeld,         \* state.lock is held across an await (by the reporter)
    waiters,          \* state.lock._waiters: the tasks in line for the lock
    stop_progress,    \* the stop_progress Event
    wpc,              \* per worker task: position in _worker
    cur,              \* per worker: user_id it holds (None when it holds none)
    attempt,          \* per worker: loop variable of _send_one_with_retry
    pend,             \* per worker: the counter its next locked section adds to
    job,              \* per worker: what it has done for the recipient it holds
    rpc,              \* reporter task: position in _progress_sender
    blocked,          \* store: users.is_blocked per recipient
    persisted,        \* store: the update_broadcast calls that returned
    progressSent,     \* sink: progress notifications sent (delivered or not)
    progressRaised,   \* sink: the progress notifications whose send raised
    faulty,           \* transport: the recipients a send has failed for
    completionSent,   \* sink: completion notifications attempted
    outcome,          \* per recipient: how the engine finished it
    ADMIN_USER_IDS,   \* config.ADMIN_USER_IDS
    user_data,        \* context.user_data of each user of the admin panel
    prompts,          \* per user: the Broadcast prompts that set its flag
    runs,             \* per user: the run_broadcast calls made for its messages
    last_run,         \* the arguments of the last run_broadcast call
    welcome_message   \* store: the welcome_message setting

vars == <<cpc, user_ids, use_copy, has_payload, queue, unfinished, sem, success,
          failed, batch_count, pacing_sleeps, last_progress_at, lockHeld, waiters,
          stop_progress, wpc, cur, attempt, pend, job, rpc, blocked, persisted,
          progressSent, progressRaised, faulty, completionSent, outcome,
          ADMIN_USER_IDS, user_data, prompts, runs, last_run, welcome_message>>

\* The state of the admin panel (src/handlers/admin_panel.py).
panel ==
    <<ADMIN_USER_IDS, user_data, prompts, runs, last_run, welcome_message>>

total == Len(user_ids)
Pool == 1..Min(BROADCAST_BATCH_SIZE, total)

\* A worker's record of the recipient it holds: backoff sleeps finished, the
\* last transport answer, how the set_user_blocked call ended, and the
\* transport calls of the current iteration of the retry loop, each with its
\* answer.
NoJob == [sleeps |-> 0, last |-> "none", mark |-> "none", calls |-> << >>]

\* A recipient's record: times dequeued, times added to success and to
\* failed, the delivery outcome it was counted with, how the set_user_blocked
\* call made for it ended, for one given up after a rate limit the attempts
\* made by then, and the transport calls of the iteration it was counted in.
NoOutcome ==
    [dequeues |-> 0, succ |-> 0, fail |-> 0, final |-> "none", mark |-> "none",
     gaveUpAfter |-> 0, calls |-> << >>]

\* The delivery outcome behind the last transport answer of a recipient
\* (none: no send was made for it).
DeliveryOutcome(last) ==
    CASE last = "ok" -> "Delivered"
      [] last = "perm" -> "RecipientUnreachable"
      [] last = "retry" -> "Deferred"
      [] OTHER -> "Failed"

\* The users of the admin panel.
PanelUsers == 1..MaxPanelUsers

\* No run_broadcast call has been made.
NoRun ==
    [by |-> None, chat |-> "none", total |-> 0, use_copy |-> FALSE,
     has_payload |-> FALSE, awaiting |-> FALSE]

\* An empty context.user_data: .get() of either flag is falsy.
NoUserData == [awaiting_broadcast |-> FALSE, awaiting_welcome |-> FALSE]

\* The admin panel before any update: no flag is set and no run was started.
PanelIdle ==
    /\ user_data = [u \in PanelUsers |-> NoUserData]
    /\ prompts = [u \in PanelUsers |-> 0]
    /\ runs = [u \in PanelUsers |-> 0]
    /\ last_run = NoRun
    /\ welcome_message = "default"

\* The engine before run_broadcast is called.
EngineInit ==
    /\ cpc = "idle"
    /\ user_ids = << >>
    /\ use_copy = FALSE
    /\ has_payload = FALSE
    /\ queue = << >>
    /\ unfinished = 0
    /\ sem = BROADCAST_BATCH_SIZE
    /\ success = 0
    /\ failed = 0
    /\ batch_count = 0
    /\ pacing_sleeps = 0
    /\ last_progress_at = 0
    /\ lockHeld = FALSE
    /\ waiters = << >>
    /\ stop_progress = FALSE
    /\ wpc = [w \in Workers |-> "none"]
    /\ cur = [w \in Workers |-> None]
    /\ attempt = [w \in Workers |-> 0]
    /\ pend = [w \in Workers |-> "none"]
    /\ job = [w \in Workers |-> NoJob]
    /\ rpc = "none"
    /\ blocked = [u \in Users |-> FALSE]
    /\ persisted = << >>
    /\ progressSent = 0
    /\ progressRaised = 0
    /\ faulty = {}
    /\ completionSent = 0
    /\ outcome = [u \in Users |-> NoOutcome]

\* One run of the engine, whoever started it: the admin panel is at rest and
\* ADMIN_USER_IDS is not set.
Init ==
    /\ EngineInit
    /\ ADMIN_USER_IDS = {}
    /\ PanelIdle

(* ---- run_broadcast ---- *)

\* run_broadcast without the `if total == 0: return` guard.
run_broadcast_unguarded(n, uc, hp) ==
    /\ UNCHANGED panel
    /\ cpc = "idle"
    /\ user_ids' = [i \in 1..n |-> i]
    /\ use_copy' = uc
    /\ has_payload' = hp
    /\ cpc' = "scheduled"
    /\ UNCHANGED <<queue, unfinished, sem, success, failed, batch_count, pacing_sleeps,
                   last_progress_at, lockHeld, waiters, stop_progress, wpc, cur,
                   attempt, pend, job, rpc, blocked, persisted, progressSent, progressRaised,
                   faulty, completionSent, outcome>>

\* A run_broadcast that awaits the seeding and the creation of the tasks
\* itself instead of leaving them to a background task.
run_broadcast_inline(n, uc, hp) ==
    /\ UNCHANGED panel
    /\ cpc = "idle"
    /\ user_ids' = [i \in 1..n |-> i]
    /\ use_copy' = uc
    /\ has_payload' = hp
    /\ queue' = IF n = 0 THEN << >>
                ELSE [i \in 1..n |-> i]
                     \o [i \in 1..Min(BROADCAST_BATCH_SIZE, n) |-> None]
    /\ unfinished' = IF n = 0 THEN 0 ELSE n + Min(BROADCAST_BATCH_SIZE, n)
    /\ wpc' = [w \in Workers |->
                  IF w <= Min(BROADCAST_BATCH_SIZE, n) THEN "new" ELSE "none"]
    /\ rpc' = IF n = 0 THEN "none" ELSE "sleep"
    /\ cpc' = IF n = 0 THEN "noop" ELSE "join"
    /\ UNCHANGED <<sem, success, failed, batch_count, pacing_sleeps,
                   last_progress_at, lockHeld, waiters, stop_progress, cur,
                   attempt, pend, job, blocked, persisted, progressSent,
                   progressRaised, faulty, completionSent, outcome>>

\* run_broadcast(bot, user_ids, payload, ...): returns at once for an empty
\* list, otherwise creates the background task _run.
run_broadcast(n, uc, hp) ==
    /\ UNCHANGED panel
    /\ cpc = "idle"
    /\ user_ids' = [i \in 1..n |-> i]
    /\ use_copy' = uc
    /\ has_payload' = hp
    /\ cpc' = IF n = 0 THEN "noop" ELSE "scheduled"
    /\ UNCHANGED <<queue, unfinished, sem, success, failed, batch_count, pacing_sleeps,
                   last_progress_at, lockHeld, waiters, stop_progress, wpc, cur,
                   attempt, pend, job, rpc, blocked, persisted, progressSent, progressRaised,
                   faulty, completionSent, outcome>>

\* The sentinels _run puts after the recipients.
Sentinels(k) == [i \in 1..k |-> None]

\* _run up to `await queue.join()`: seed the queue, create the worker tasks
\* and the reporter task.
RunStart ==
    /\ UNCHANGED panel
    /\ cpc = "scheduled"
    /\ queue' = user_ids \o Sentinels(Min(BROADCAST_BATCH_SIZE, total))
    /\ unfinished' = total + Min(BROADCAST_BATCH_SIZE, total)
    /\ wpc' = [w \in Workers |-> IF w \in Pool THEN "new" ELSE "none"]
    /\ rpc' = "sleep"
    /\ cpc' = "join"
    /\ UNCHANGED <<user_ids, use_copy, has_payload, sem, success, failed,
                   batch_count, pacing_sleeps, last_progress_at, lockHeld, waiters,
                   stop_progress, cur, attempt, pend, job, blocked, persisted,
                   progressSent, progressRaised, faulty, completionSent, outcome>>

(* ---- asyncio.Queue, asyncio.Semaphore ---- *)

\* Queue.task_done(): raises ValueError when no put is left unacknowledged,
\* otherwise decrements the unfinished-task count.
task_done(u) ==
    [raised |-> u <= 0, unfinished |-> IF u <= 0 THEN u ELSE u - 1]

\* An acquire that takes two slots.
acquireTwo(v) == v - 2

\* Semaphore.acquire() with a free slot, and Semaphore.release(), on the
\* semaphore's value: the two ends of `async with semaphore`.
acquire(v) == v - 1

\* A release that gives no slot back.
releaseNothing(v) == v

release(v) == v + 1

(* ---- _send_via_copy / _send_via_payload ---- *)

\* The error text names a blocked, deactivated or unknown recipient.
is_permanent(r) == r = "perm"

\* What _send_via_copy hands to its caller for a transport answer: True,
\* False, or the exception it re-raises.
send_via_copy(r) ==
    CASE r = "ok" -> "True"
      [] r = "retry" -> "RetryAfter"
      [] r \in {"perm", "other"} ->
            IF is_permanent(r) THEN "False" ELSE "BadRequest"
      [] OTHER -> "Exception"

\* The same for _send_via_payload.
send_via_payload(r) ==
    CASE r = "ok" -> "True"
      [] r = "retry" -> "RetryAfter"
      [] r \in {"perm", "other"} ->
            IF is_permanent(r) THEN "False" ELSE "BadRequest"
      [] OTHER -> "Exception"

(* ---- _send_one_with_retry ---- *)

\* Where one iteration of the retry loop goes first: the copy, the payload
\* send, or (neither given) straight to failed += 1.
AttemptStart ==
    IF use_copy THEN "copy" ELSE IF has_payload THEN "payload" ELSE "count"

\* The loop with its range one short: range(1, MAX_RETRY_AFTER_ATTEMPTS).
HasNextAttemptShort(a) == a < MAX_RETRY_AFTER_ATTEMPTS - 1

\* `for attempt in range(1, MAX_RETRY_AFTER_ATTEMPTS + 1)`: another iteration
\* follows the one numbered a.
HasNextAttempt(a) == a < MAX_RETRY_AFTER_ATTEMPTS

\* A caller of _send_via_copy that makes the payload send after a copy that
\* succeeded as well.
AfterCopySendsAgain(o, r) ==
    CASE o = "True" -> [pc |-> "payload", pend |-> "none"]
      [] o = "False" -> [pc |-> "mark", pend |-> "failed"]
      [] o = "RetryAfter" -> [pc |-> "backoff", pend |-> "none"]
      [] o = "BadRequest" ->
            IF has_payload THEN [pc |-> "payload", pend |-> "none"]
            ELSE [pc |-> "count", pend |-> "failed"]
      [] OTHER -> [pc |-> "count", pend |-> "failed"]

\* A caller of _send_via_copy that falls back to the payload send after a
\* permanent failure of the copy too.
AfterCopyFallsBack(o, r) ==
    CASE o = "True" -> [pc |-> "count", pend |-> "success"]
      [] o \in {"False", "BadRequest"} ->
            IF has_payload THEN [pc |-> "payload", pend |-> "none"]
            ELSE IF is_permanent(r) THEN [pc |-> "mark", pend |-> "failed"]
            ELSE [pc |-> "count", pend |-> "failed"]
      [] o = "RetryAfter" -> [pc |-> "backoff", pend |-> "none"]
      [] OTHER -> [pc |-> "count", pend |-> "failed"]

\* A caller of _send_via_copy that counts a permanent failure without
\* calling set_user_blocked.
AfterCopyNoMark(o, r) ==
    CASE o = "True" -> [pc |-> "count", pend |-> "success"]
      [] o = "False" -> [pc |-> "count", pend |-> "failed"]
      [] o = "RetryAfter" -> [pc |-> "backoff", pend |-> "none"]
      [] o = "BadRequest" ->
            IF has_payload THEN [pc |-> "payload", pend |-> "none"]
            ELSE [pc |-> "count", pend |-> "failed"]
      [] OTHER -> [pc |-> "count", pend |-> "failed"]

\* What the caller of _send_via_copy does with its outcome o (r is the
\* transport answer behind it): the next position of the worker and the
\* counter its locked section will add to.
AfterCopy(o, r) ==
    CASE o = "True" -> [pc |-> "count", pend |-> "success"]
      [] o = "False" -> [pc |-> "mark", pend |-> "failed"]
      [] o = "RetryAfter" -> [pc |-> "backoff", pend |-> "none"]
      [] o = "BadRequest" ->
            IF is_permanent(r) THEN [pc |-> "mark", pend |-> "failed"]
            ELSE IF has_payload THEN [pc |-> "payload", pend |-> "none"]
            ELSE [pc |-> "count", pend |-> "failed"]
      [] OTHER -> [pc |-> "count", pend |-> "failed"]

\* A caller of _send_via_payload that counts a RetryAfter of the payload
\* send as a failure instead of sleeping and retrying.
AfterPayloadNoRetry(o, r) ==
    CASE o = "True" -> [pc |-> "count", pend |-> "success"]
      [] o = "False" -> [pc |-> "mark", pend |-> "failed"]
      [] o = "BadRequest" ->
            IF is_permanent(r) THEN [pc |-> "mark", pend |-> "escape"]
            ELSE [pc |-> "count", pend |-> "failed"]
      [] OTHER -> [pc |-> "count", pend |-> "failed"]

\* A caller of _send_via_payload that calls set_user_blocked for every
\* Forbidden/BadRequest, whatever its text.
AfterPayloadMarksAll(o, r) ==
    CASE o = "True" -> [pc |-> "count", pend |-> "success"]
      [] o = "False" -> [pc |-> "mark", pend |-> "failed"]
      [] o = "RetryAfter" -> [pc |-> "backoff", pend |-> "none"]
      [] o = "BadRequest" -> [pc |-> "mark", pend |-> "failed"]
      [] OTHER -> [pc |-> "count", pend |-> "failed"]

\* The same for the outcome of _send_via_payload, called directly or as the
\* fallback of a failed copy.
AfterPayload(o, r) ==
    CASE o = "True" -> [pc |-> "count", pend |-> "success"]
      [] o = "False" -> [pc |-> "mark", pend |-> "failed"]
      [] o = "RetryAfter" -> [pc |-> "backoff", pend |-> "none"]
      [] o = "BadRequest" ->
            IF is_permanent(r) THEN [pc |-> "mark", pend |-> "escape"]
            ELSE [pc |-> "count", pend |-> "failed"]
      [] OTHER -> [pc |-> "count", pend |-> "failed"]

(* ---- one worker task, run until it suspends ---- *)

\* The variables a worker task reads and writes while it runs.
Snap ==
    [queue |-> queue, unfinished |-> unfinished, sem |-> sem,
     success |-> success, failed |-> failed, batch_count |-> batch_count,
     pacing_sleeps |-> pacing_sleeps,
     waiters |-> waiters, outcome |-> outcome, wpc |-> wpc, cur |-> cur,
     attempt |-> attempt, pend |-> pend, job |-> job]

\* The state a worker leaves behind when it suspends or ends.
Apply(s) ==
    /\ queue' = s.queue
    /\ unfinished' = s.unfinished
    /\ sem' = s.sem
    /\ success' = s.success
    /\ failed' = s.failed
    /\ batch_count' = s.batch_count
    /\ pacing_sleeps' = s.pacing_sleeps
    /\ waiters' = s.waiters
    /\ outcome' = s.outcome
    /\ wpc' = s.wpc
    /\ cur' = s.cur
    /\ attempt' = s.attempt
    /\ pend' = s.pend
    /\ job' = s.job

\* Lock.acquire() returns without suspending: the lock is not held and no
\* task is in line for it.
LockFree(s) == ~lockHeld /\ s.waiters = << >>

\* Lock.acquire() suspends: the task joins the line, at position pc.
WaitForLock(s, w, pc) ==
    [s EXCEPT !.wpc[w] = pc, !.waiters = Append(@, w)]

\* A failure branch without its `return`: the recipient is counted failed
\* there and again by the failed += 1 after the loop.
CountedAgainAfterLoop(s, w) ==
    LET u == s.cur[w]
        ok == s.pend[w] = "success"
    IN [s EXCEPT !.success = IF ok THEN @ + 1 ELSE @,
                 !.failed = IF ok THEN @ ELSE @ + 2,
                 !.outcome[u].succ = IF ok THEN @ + 1 ELSE @,
                 !.outcome[u].fail = IF ok THEN @ ELSE @ + 2,
                 !.outcome[u].final = DeliveryOutcome(s.job[w].last),
                 !.outcome[u].mark = s.job[w].mark,
                 !.outcome[u].calls = s.job[w].calls,
                 !.outcome[u].gaveUpAfter =
                     IF s.job[w].last = "retry" THEN s.attempt[w] ELSE 0,
                 !.pend[w] = "none"]

\* `async with state.lock: state.success += 1` (pend = "success") or
\* `state.failed += 1`; the recipient's record keeps what was counted.
Counted(s, w) ==
    LET u == s.cur[w]
        ok == s.pend[w] = "success"
    IN [s EXCEPT !.success = IF ok THEN @ + 1 ELSE @,
                 !.failed = IF ok THEN @ ELSE @ + 1,
                 !.outcome[u].succ = IF ok THEN @ + 1 ELSE @,
                 !.outcome[u].fail = IF ok THEN @ ELSE @ + 1,
                 !.outcome[u].final = DeliveryOutcome(s.job[w].last),
                 !.outcome[u].mark = s.job[w].mark,
                 !.outcome[u].calls = s.job[w].calls,
                 !.outcome[u].gaveUpAfter =
                     IF s.job[w].last = "retry" THEN s.attempt[w] ELSE 0,
                 !.pend[w] = "none"]

\* A pacing test that fires one delivery late.
PaceDueLate(n) == n % BROADCAST_MESSAGES_PER_SECOND = 1

\* `if n % BROADCAST_MESSAGES_PER_SECOND == 0`
PaceDue(n) == n % BROADCAST_MESSAGES_PER_SECOND = 0

RECURSIVE RunCount(_, _)
RECURSIVE RunBatch(_, _)
RECURSIVE AfterBatch(_, _)
RECURSIVE RunFinish(_, _)
RECURSIVE RunGet(_, _)
RECURSIVE RunAcquire(_, _)
RECURSIVE RunAttempt(_, _)

\* A worker that goes to the pacing test without adding to batch_count
\* when it has to wait for nothing.
RunBatchUncounted(s, w) ==
    IF LockFree(s) THEN AfterBatch(s, w)
    ELSE WaitForLock(s, w, "batch")

\* A retry that resumes where the rate limit was raised: with the payload
\* send when the payload fallback raised it, without a new copy.
RunAttemptResumes(s, w) ==
    IF AttemptStart = "count" THEN RunCount([s EXCEPT !.pend[w] = "failed"], w)
    ELSE [s EXCEPT !.wpc[w] =
                       IF /\ s.job[w].calls # << >>
                          /\ s.job[w].calls[Len(s.job[w].calls)][1] = "payload"
                       THEN "payload" ELSE AttemptStart,
                   !.pend[w] = "none",
                   !.job[w].calls = << >>]

\* _send_one_with_retry reaches a locked increment of success or failed,
\* then returns to _worker.
RunCount(s, w) ==
    IF LockFree(s) THEN RunBatch(Counted(s, w), w)
    ELSE WaitForLock(s, w, "count")

\* _worker: `async with state.lock: state.batch_count += 1; n = ...`
RunBatch(s, w) ==
    IF LockFree(s) THEN AfterBatch([s EXCEPT !.batch_count = @ + 1], w)
    ELSE WaitForLock(s, w, "batch")

\* _worker: the pacing test on n, and `await asyncio.sleep(1.0)`.
AfterBatch(s, w) ==
    IF PaceDue(s.batch_count)
    THEN [s EXCEPT !.wpc[w] = "pace", !.pacing_sleeps = @ + 1]
    ELSE RunFinish(s, w)

\* _worker: the end of one recipient.  The semaphore is released, the
\* finally clause calls task_done(), and the loop goes back to queue.get();
\* a ValueError raised by task_done() in the finally clause ends the task.
RunFinish(s, w) ==
    LET a == task_done(s.unfinished)
        s1 == [s EXCEPT !.sem = release(@), !.unfinished = a.unfinished,
                        !.cur[w] = None, !.attempt[w] = 0, !.job[w] = NoJob,
                        !.pend[w] = "none"]
    IN IF a.raised THEN [s1 EXCEPT !.wpc[w] = "crashed"]
       ELSE RunGet(s1, w)

\* _worker: `user_id = await queue.get()`.  For a sentinel: task_done(),
\* return, and the finally clause's task_done() on the way out (a ValueError
\* of the first call is caught and logged, one of the second ends the task).
RunGet(s, w) ==
    IF s.queue = << >> THEN [s EXCEPT !.wpc[w] = "get"]
    ELSE LET h == Head(s.queue)
             s1 == [s EXCEPT !.queue = Tail(@)]
         IN IF h = None
            THEN LET a1 == task_done(s1.unfinished)
                     a2 == task_done(a1.unfinished)
                     s2 == [s1 EXCEPT !.unfinished = a2.unfinished]
                 IN IF a2.raised THEN [s2 EXCEPT !.wpc[w] = "crashed"]
                    ELSE IF a1.raised THEN RunGet(s2, w)
                    ELSE [s2 EXCEPT !.wpc[w] = "done"]
            ELSE RunAcquire([s1 EXCEPT !.cur[w] = h,
                                       !.outcome[h].dequeues = @ + 1], w)

\* _worker: `async with semaphore:` takes a slot at once when one is free
\* and waits otherwise; _send_one_with_retry then starts with attempt = 1.
RunAcquire(s, w) ==
    IF s.sem > 0
    THEN RunAttempt([s EXCEPT !.sem = acquire(@), !.attempt[w] = 1], w)
    ELSE [s EXCEPT !.wpc[w] = "acquire"]

\* _send_one_with_retry: one iteration of the loop starts with the copy,
\* with the payload send, or, neither given, with failed += 1.
RunAttempt(s, w) ==
    IF AttemptStart = "count" THEN RunCount([s EXCEPT !.pend[w] = "failed"], w)
    ELSE [s EXCEPT !.wpc[w] = AttemptStart, !.pend[w] = "none",
                   !.job[w].calls = << >>]

\* The worker goes on from the outcome of a transport call.
RunAfterSend(s, w, nxt) ==
    LET s1 == [s EXCEPT !.pend[w] = nxt.pend]
    IN IF nxt.pc = "count" THEN RunCount(s1, w)
       ELSE [s1 EXCEPT !.wpc[w] = nxt.pc]

(* ---- _worker: the steps of a worker task ---- *)

\* Every task _run has created has made its first step.  create_task puts
\* the first steps on the loop's ready queue in creation order, and the loop
\* runs them, once _run suspends in queue.join(), before it polls for any
\* answer or timer.
Started == \A w \in Workers : wpc[w] # "new"

\* A worker task makes its first step (after the workers created before
\* it), or comes back from waiting for a semaphore slot.
WorkerGet(w) ==
    /\ UNCHANGED panel
    /\ wpc[w] \in {"new", "acquire"}
    /\ IF wpc[w] = "acquire"
       THEN Started /\ sem > 0 /\ Apply(RunAcquire(Snap, w))
       ELSE (\A v \in 1..(w - 1) : wpc[v] # "new") /\ Apply(RunGet(Snap, w))
    /\ UNCHANGED <<cpc, user_ids, use_copy, has_payload, last_progress_at,
                   lockHeld, stop_progress, rpc, blocked, persisted,
                   progressSent, progressRaised, faulty, completionSent>>

\* The transport may answer r to a send for recipient u: it fails for at
\* most MaxFaulty recipients of a run.
MayAnswer(u, r) ==
    r = "ok" \/ u \in faulty \/ Cardinality(faulty) < MaxFaulty

\* The recipients a send has failed for, after the answer r for u.
Answered(u, r) == IF r = "ok" THEN faulty ELSE faulty \cup {u}

\* bot.copy_message answers r.
CopyReturns(w, r) ==
    /\ UNCHANGED panel
    /\ wpc[w] = "copy"
    /\ Started
    /\ MayAnswer(cur[w], r)
    /\ faulty' = Answered(cur[w], r)
    /\ Apply(RunAfterSend([Snap EXCEPT !.job[w].last = r,
                                       !.job[w].calls = Append(@, <<"copy", r>>)],
                          w, AfterCopy(send_via_copy(r), r)))
    /\ UNCHANGED <<cpc, user_ids, use_copy, has_payload, last_progress_at,
                   lockHeld, stop_progress, rpc, blocked, persisted,
                   progressSent, progressRaised, completionSent>>

\* The payload send (bot.send_message, send_photo, ...) answers r.
PayloadReturns(w, r) ==
    /\ UNCHANGED panel
    /\ wpc[w] = "payload"
    /\ Started
    /\ MayAnswer(cur[w], r)
    /\ faulty' = Answered(cur[w], r)
    /\ Apply(RunAfterSend([Snap EXCEPT !.job[w].last = r,
                                       !.job[w].calls = Append(@, <<"payload", r>>)],
                          w, AfterPayload(send_via_payload(r), r)))
    /\ UNCHANGED <<cpc, user_ids, use_copy, has_payload, last_progress_at,
                   lockHeld, stop_progress, rpc, blocked, persisted,
                   progressSent, progressRaised, completionSent>>

\* db.set_user_blocked(telegram_id, blocked): the UPDATE sets the flag.
set_user_blocked(flags, u, b) == [flags EXCEPT ![u] = b]

\* `await db.set_user_blocked(user_id, blocked=True)` returns, and
\* failed += 1 comes next; or it raises: inside the try block into
\* `except Exception` (failed += 1), inside the outer except clause
\* (pend = "escape") out of _send_one_with_retry into _worker's handler.
MarkReturns(w, raises) ==
    /\ UNCHANGED panel
    /\ wpc[w] = "mark"
    /\ Started
    /\ blocked' = IF raises THEN blocked ELSE set_user_blocked(blocked, cur[w], TRUE)
    /\ IF raises /\ pend[w] = "escape"
       THEN Apply(RunFinish(Snap, w))
       ELSE Apply(RunCount([Snap EXCEPT
                               !.job[w].mark = IF raises THEN "raised" ELSE "ok",
                               !.pend[w] = "failed"], w))
    /\ UNCHANGED <<cpc, user_ids, use_copy, has_payload, last_progress_at,
                   lockHeld, stop_progress, rpc, persisted, progressSent, progressRaised,
                   faulty, completionSent>>

\* A retry made through the queue: after the sleep the worker puts the
\* recipient back on the queue, lets it go, and takes the next entry.
BackoffRequeues(w) ==
    /\ UNCHANGED panel
    /\ wpc[w] = "backoff"
    /\ Started
    /\ Apply(RunFinish([Snap EXCEPT !.queue = Append(@, cur[w]),
                                    !.unfinished = @ + 1], w))
    /\ UNCHANGED <<cpc, user_ids, use_copy, has_payload, last_progress_at,
                   lockHeld, stop_progress, rpc, blocked, persisted,
                   progressSent, progressRaised, faulty, completionSent>>

\* `await asyncio.sleep(e.retry_after); continue`: the next iteration of the
\* loop, or, the range exhausted, the failed += 1 after the loop.
BackoffEnds(w) ==
    /\ UNCHANGED panel
    /\ wpc[w] = "backoff"
    /\ Started
    /\ LET s == [Snap EXCEPT !.job[w].sleeps = @ + 1]
       IN IF HasNextAttempt(attempt[w])
          THEN Apply(RunAttempt([s EXCEPT !.attempt[w] = @ + 1], w))
          ELSE Apply(RunCount([s EXCEPT !.pend[w] = "failed"], w))
    /\ UNCHANGED <<cpc, user_ids, use_copy, has_payload, last_progress_at,
                   lockHeld, stop_progress, rpc, blocked, persisted,
                   progressSent, progressRaised, faulty, completionSent>>

\* `await asyncio.sleep(1.0)` ends.
PaceEnds(w) ==
    /\ UNCHANGED panel
    /\ wpc[w] = "pace"
    /\ Started
    /\ Apply(RunFinish(Snap, w))
    /\ UNCHANGED <<cpc, user_ids, use_copy, has_payload, last_progress_at,
                   lockHeld, stop_progress, rpc, blocked, persisted,
                   progressSent, progressRaised, faulty, completionSent>>

\* Lock.release() has woken the first task in line: a worker takes the
\* lock, makes its increment, releases the lock and goes on.
LockGranted(w) ==
    /\ UNCHANGED panel
    /\ wpc[w] \in {"count", "batch"}
    /\ Started
    /\ ~lockHeld
    /\ waiters # << >>
    /\ Head(waiters) = w
    /\ LET s == [Snap EXCEPT !.waiters = Tail(@)]
       IN IF wpc[w] = "count"
          THEN Apply(RunBatch(Counted(s, w), w))
          ELSE Apply(AfterBatch([s EXCEPT !.batch_count = @ + 1], w))
    /\ UNCHANGED <<cpc, user_ids, use_copy, has_payload, last_progress_at,
                   lockHeld, stop_progress, rpc, blocked, persisted,
                   progressSent, progressRaised, faulty, completionSent>>

(* ---- _progress_sender ---- *)

\* A reporter that reports on every tick.
ShouldReportAlways(current) == TRUE

\* The test the reporter makes under the lock.
ShouldReport(current) ==
    current - last_progress_at >= progress_interval \/ current >= total

\* The reporter holds the lock: it either starts the send, keeping the lock
\* while the send is in flight, or releases the lock and sleeps again.
ReportUnderLock ==
    IF ShouldReport(success + failed)
    THEN /\ last_progress_at' = success + failed
         /\ lockHeld' = TRUE
         /\ rpc' = "sending"
    ELSE /\ rpc' = "sleep"
         /\ UNCHANGED <<last_progress_at, lockHeld>>

\* `await asyncio.sleep(2.0)` ends: return if the stop event is set,
\* otherwise `async with state.lock`.  After MaxProgress notifications the
\* sleep lasts until the stop event is set.
ReporterTick ==
    /\ UNCHANGED panel
    /\ rpc = "sleep"
    /\ Started
    /\ stop_progress \/ progressSent < MaxProgress
    /\ IF stop_progress
       THEN /\ rpc' = "done"
            /\ UNCHANGED <<last_progress_at, lockHeld, waiters>>
       ELSE IF ~lockHeld /\ waiters = << >>
       THEN /\ ReportUnderLock
            /\ UNCHANGED waiters
       ELSE /\ waiters' = Append(waiters, Reporter)
            /\ rpc' = "lockwait"
            /\ UNCHANGED <<last_progress_at, lockHeld>>
    /\ UNCHANGED <<cpc, user_ids, use_copy, has_payload, queue, unfinished, sem,
                   success, failed, batch_count, pacing_sleeps, stop_progress, wpc, cur, attempt,
                   pend, job, blocked, persisted, progressSent, progressRaised, faulty,
                   completionSent, outcome>>

\* Lock.release() has woken the reporter, first in line.
ReporterLockGranted ==
    /\ UNCHANGED panel
    /\ rpc = "lockwait"
    /\ Started
    /\ ~lockHeld
    /\ waiters # << >>
    /\ Head(waiters) = Reporter
    /\ waiters' = Tail(waiters)
    /\ ReportUnderLock
    /\ UNCHANGED <<cpc, user_ids, use_copy, has_payload, queue, unfinished, sem,
                   success, failed, batch_count, pacing_sleeps, stop_progress, wpc, cur, attempt,
                   pend, job, blocked, persisted, progressSent, progressRaised, faulty,
                   completionSent, outcome>>

\* A reporter without the try/except around the send: an error of the sink
\* leaves `async with state.lock` and ends the reporter task.
ReporterSendEscapes(raises) ==
    /\ UNCHANGED panel
    /\ rpc = "sending"
    /\ Started
    /\ progressSent' = progressSent + 1
    /\ progressRaised' = IF raises THEN progressRaised + 1 ELSE progressRaised
    /\ lockHeld' = FALSE
    /\ rpc' = IF raises THEN "crashed" ELSE IF stop_progress THEN "done" ELSE "sleep"
    /\ UNCHANGED <<cpc, user_ids, use_copy, has_payload, queue, unfinished, sem,
                   success, failed, batch_count, pacing_sleeps, last_progress_at, waiters,
                   stop_progress, wpc, cur, attempt, pend, job, blocked,
                   persisted, faulty, completionSent, outcome>>

\* The progress bot.send_message returns or raises (the error is logged);
\* the lock is released and the loop tests the stop event.
ReporterSendReturns(raises) ==
    /\ UNCHANGED panel
    /\ rpc = "sending"
    /\ Started
    /\ progressSent' = progressSent + 1
    /\ progressRaised' = IF raises THEN progressRaised + 1 ELSE progressRaised
    /\ lockHeld' = FALSE
    /\ rpc' = IF stop_progress THEN "done" ELSE "sleep"
    /\ UNCHANGED <<cpc, user_ids, use_copy, has_payload, queue, unfinished, sem,
                   success, failed, batch_count, pacing_sleeps, last_progress_at, waiters,
                   stop_progress, wpc, cur, attempt, pend, job, blocked,
                   persisted, faulty, completionSent, outcome>>

(* ---- _run after the seeding ---- *)

\* `await queue.join()` returns once the unfinished-task count is zero;
\* stop_progress.set() follows at once.
JoinReturns ==
    /\ UNCHANGED panel
    /\ cpc = "join"
    /\ Started
    /\ unfinished = 0
    /\ stop_progress' = TRUE
    /\ cpc' = "gather"
    /\ UNCHANGED <<user_ids, use_copy, has_payload, queue, unfinished, sem,
                   success, failed, batch_count, pacing_sleeps, last_progress_at, lockHeld,
                   waiters, wpc, cur, attempt, pend, job, rpc, blocked,
                   persisted, progressSent, progressRaised, faulty, completionSent, outcome>>

\* db.update_broadcast(broadcast_id, success, failed, status): the row written.
update_broadcast(s, f, status) == [success |-> s, failed |-> f, status |-> status]

\* The line for the lock without the cancelled reporter.
WithoutReporter(q) == SelectSeq(q, LAMBDA t : t # Reporter)

\* `await asyncio.gather(*workers)` and the rest of _run.  gather raises the
\* first worker exception, which ends _run there.  When every worker has
\* returned: the reporter is cancelled and awaited, update_broadcast is
\* called (an error of the store ends _run), and the completion message is
\* sent (an error of the sink is logged).  No other task of the run is
\* alive by then, so the rest is one step.
GatherReturns(storeRaises, sinkRaises) ==
    /\ UNCHANGED panel
    /\ cpc = "gather"
    /\ Started
    /\ IF \E w \in Pool : wpc[w] = "crashed"
       THEN /\ cpc' = "crashed"
            /\ UNCHANGED <<rpc, lockHeld, waiters, persisted, completionSent>>
       ELSE /\ \A w \in Pool : wpc[w] = "done"
            /\ rpc' = IF rpc \in {"sleep", "sending", "lockwait"} THEN "cancelled" ELSE rpc
            /\ lockHeld' = FALSE
            /\ waiters' = WithoutReporter(waiters)
            /\ persisted' = IF storeRaises THEN persisted
                            ELSE Append(persisted,
                                        update_broadcast(success, failed, "completed"))
            /\ completionSent' = IF storeRaises THEN completionSent
                                 ELSE completionSent + 1
            /\ cpc' = IF storeRaises THEN "crashed" ELSE "done"
    /\ UNCHANGED <<user_ids, use_copy, has_payload, queue, unfinished, sem,
                   success, failed, batch_count, pacing_sleeps, last_progress_at, stop_progress,
                   wpc, cur, attempt, pend, job, blocked, progressSent, progressRaised, faulty,
                   outcome>>

Next ==
    \/ \E n \in 0..MaxUsers, uc \in BOOLEAN, hp \in BOOLEAN : run_broadcast(n, uc, hp)
    \/ RunStart
    \/ \E w \in Workers : WorkerGet(w)
    \/ \E w \in Workers, r \in TransportResults : CopyReturns(w, r)
    \/ \E w \in Workers, r \in TransportResults : PayloadReturns(w, r)
    \/ \E w \in Workers, raises \in BOOLEAN : MarkReturns(w, raises)
    \/ \E w \in Workers : BackoffEnds(w)
    \/ \E w \in Workers : PaceEnds(w)
    \/ \E w \in Workers : LockGranted(w)
    \/ ReporterTick
    \/ ReporterLockGranted
    \/ \E raises \in BOOLEAN : ReporterSendReturns(raises)
    \/ JoinReturns
    \/ \E storeRaises \in BOOLEAN, sinkRaises \in BOOLEAN :
            GatherReturns(storeRaises, sinkRaises)

Spec == Init /\ [][Next]_vars

(***************************************************************************)
(* The admin panel of src/handlers/admin_panel.py, with the dispatch of     *)
(* src/main.py.  The application handles one update at a time               *)
(* (concurrent_updates is not set), so a handler is one action.  Each       *)
(* run_broadcast call constructs the state of a run of its own (the run     *)
(* Spec describes); here the call is recorded with its arguments.           *)
(***************************************************************************)

\* The variables of the engine.
engine ==
    <<cpc, user_ids, use_copy, has_payload, queue, unfinished, sem, success,
      failed, batch_count, pacing_sleeps, last_progress_at, lockHeld, waiters,
      stop_progress, wpc, cur, attempt, pend, job, rpc, blocked, persisted,
      progressSent, progressRaised, faulty, completionSent, outcome>>

\* The chats an update can come from; ADMIN_GROUP_ID is the admin group.
ADMIN_GROUP_ID == "admin_group"
Chats == {ADMIN_GROUP_ID, "private"}

\* What a message update can be: the /start command, a text, one medium
\* _message_to_payload knows, or anything else (a location, a poll, ...).
MessageKinds == {"start", "text", "media", "other"}

\* _is_admin(user_id)
is_admin(user_id) ==
    IF user_id = None THEN FALSE
    ELSE IF ADMIN_USER_IDS = {} THEN TRUE
    ELSE user_id \in ADMIN_USER_IDS

\* main(): the handler a message update goes to, the first whose filter
\* accepts it.
Dispatch(chat, kind, reply) ==
    IF kind = "start" THEN "send_welcome"
    ELSE IF chat = ADMIN_GROUP_ID /\ reply THEN "handle_admin_group_reply"
    ELSE IF chat = ADMIN_GROUP_ID THEN "handle_admin_message"
    ELSE "handle_private_message"

\* _message_to_payload(msg): a payload, or None for a message it has no
\* type for.
message_to_payload(kind) == IF kind \in {"text", "media"} THEN kind ELSE "None"

\* callback_broadcast: the Broadcast button.  Outside the admin group or for
\* a user who fails the admin check nothing is set; otherwise the query is
\* answered, the prompt is shown and the user's flag is set (an error of
\* either call leaves the handler before the flag is set).
callback_broadcast(u, chat, raises) ==
    /\ IF chat # ADMIN_GROUP_ID \/ ~is_admin(u) \/ raises
       THEN UNCHANGED <<user_data, prompts>>
       ELSE /\ prompts[u] < MaxPrompts
            /\ user_data' = [user_data EXCEPT ![u].awaiting_broadcast = TRUE]
            /\ prompts' = [prompts EXCEPT ![u] = @ + 1]
    /\ UNCHANGED <<ADMIN_USER_IDS, runs, last_run, welcome_message>>
    /\ UNCHANGED engine

\* callback_set_welcome: the Set Welcome button.
callback_set_welcome(u, raises) ==
    /\ IF ~is_admin(u) \/ raises
       THEN UNCHANGED user_data
       ELSE user_data' = [user_data EXCEPT ![u].awaiting_welcome = TRUE]
    /\ UNCHANGED <<ADMIN_USER_IDS, prompts, runs, last_run, welcome_message>>
    /\ UNCHANGED engine

\* _start_broadcast(update, context), called with the flags already as in
\* data: an unsupported message, an empty list of active users or an error
\* of the store or of the reply ends it before run_broadcast; otherwise
\* run_broadcast is called with the list, the payload and the message as
\* the source.
start_broadcast(u, chat, kind, n, raises, data) ==
    IF message_to_payload(kind) = "None" \/ n = 0 \/ raises
    THEN UNCHANGED <<runs, last_run>>
    ELSE /\ runs' = [runs EXCEPT ![u] = @ + 1]
         /\ last_run' = [by |-> u, chat |-> chat, total |-> n,
                         use_copy |-> TRUE,
                         has_payload |-> message_to_payload(kind) # "None",
                         awaiting |-> data[u].awaiting_broadcast]

\* A handler that starts the broadcast first and clears the flag only after
\* run_broadcast was called.
handle_admin_message_clears_late(u, chat, kind, reply, n, raises) ==
    /\ Dispatch(chat, kind, reply) = "handle_admin_message"
    /\ IF u = None
       THEN UNCHANGED <<user_data, runs, last_run, welcome_message>>
       ELSE IF user_data[u].awaiting_broadcast
       THEN /\ start_broadcast(u, chat, kind, n, raises, user_data)
            /\ user_data' =
                   IF message_to_payload(kind) = "None" \/ n = 0 \/ raises
                   THEN user_data
                   ELSE [user_data EXCEPT ![u].awaiting_broadcast = FALSE]
            /\ UNCHANGED welcome_message
       ELSE UNCHANGED <<user_data, runs, last_run, welcome_message>>
    /\ UNCHANGED <<ADMIN_USER_IDS, prompts>>
    /\ UNCHANGED engine

\* handle_admin_message: a message in the admin group that is no reply.
\* With the sender's awaiting_broadcast flag set: the flag is cleared, and
\* for a sender who passes the admin check _start_broadcast follows.
\* Otherwise, with awaiting_welcome set: that flag is cleared and
\* _store_welcome follows.  An update without a user has no user_data, and
\* the handler ends with an error.
handle_admin_message(u, chat, kind, reply, n, raises) ==
    /\ Dispatch(chat, kind, reply) = "handle_admin_message"
    /\ IF u = None
       THEN UNCHANGED <<user_data, runs, last_run, welcome_message>>
       ELSE IF user_data[u].awaiting_broadcast
       THEN /\ user_data' = [user_data EXCEPT ![u].awaiting_broadcast = FALSE]
            /\ IF is_admin(u)
               THEN start_broadcast(u, chat, kind, n, raises, user_data')
               ELSE UNCHANGED <<runs, last_run>>
            /\ UNCHANGED welcome_message
       ELSE IF user_data[u].awaiting_welcome
       THEN /\ user_data' = [user_data EXCEPT ![u].awaiting_welcome = FALSE]
            /\ welcome_message' =
                   IF is_admin(u) /\ message_to_payload(kind) # "None" /\ ~raises
                   THEN "custom" ELSE welcome_message
            /\ UNCHANGED <<runs, last_run>>
       ELSE UNCHANGED <<user_data, runs, last_run, welcome_message>>
    /\ UNCHANGED <<ADMIN_USER_IDS, prompts>>
    /\ UNCHANGED engine

\* The panel with any setting of ADMIN_USER_IDS.
PanelInit ==
    /\ EngineInit
    /\ ADMIN_USER_IDS \in SUBSET PanelUsers
    /\ PanelIdle

PanelNext ==
    \/ \E u \in PanelUsers, chat \in Chats, raises \in BOOLEAN :
            callback_broadcast(u, chat, raises)
    \/ \E u \in PanelUsers, raises \in BOOLEAN : callback_set_welcome(u, raises)
    \/ \E u \in PanelUsers \cup {None}, chat \in Chats, kind \in MessageKinds,
          reply \in BOOLEAN, n \in 0..MaxUsers, raises \in BOOLEAN :
            handle_admin_message(u, chat, kind, reply, n, raises)

PanelSpec == PanelInit /\ [][PanelNext]_vars

(***************************************************************************)
(* Properties                                                              *)
(***************************************************************************)

\* The coordinator task _run has ended: it returned, or an exception left it.
RunEnded == cpc \in {"done", "crashed"}

\* queue.join() returns in this step.
DrainReturns == cpc = "join" /\ cpc' = "gather"

\* The recipients of the run.
Recipients == 1..total

\* Every recipient of the run has been added to success or to failed.
AllCounted == \A u \in Recipients : outcome[u].final # "none"

\* The recipients counted with the delivery outcome d.
CountedAs(d) == {u \in Recipients : outcome[u].final = d}

\* The workers between the acquisition of a semaphore slot and its release.
Holding ==
    {w \in Workers :
        wpc[w] \in {"copy", "payload", "mark", "backoff", "count", "batch", "pace"}}

\* C1: every run with a non-empty recipient list persists its outcome: once
\* the coordinator task has ended, db.update_broadcast has been called
\* exactly once, with the success and failed counters and status 'completed'.
C1_OutcomePersisted ==
    RunEnded =>
        /\ Len(persisted) = 1
        /\ persisted[1].status = "completed"
        /\ persisted[1].success + persisted[1].failed = total

\* C2: at the moment queue.join() returns, success + failed equals total.
C2_CountersCompleteAtDrain ==
    [][DrainReturns => success + failed = total]_vars

\* C3: when queue.join() returns, every seeded entry has been dequeued and
\* its processing has finished: no sentinel is left in the queue and no
\* worker still holds a recipient.
C3_DrainWaitsForEveryEntry ==
    [][DrainReturns => (queue = << >> /\ \A w \in Workers : cur[w] = None)]_vars

\* C4: a non-empty run sends exactly one completion notification, only after
\* the outcome has been persisted, and the coordinator task ends normally
\* whether or not that send raised.
C4_OneCompletionAfterPersist ==
    /\ completionSent > 0 => Len(persisted) = 1
    /\ RunEnded => (cpc = "done" /\ completionSent = 1)

\* C5: a recipient whose every attempt ended in RetryAfter has been attempted
\* exactly MAX_RETRY_AFTER_ATTEMPTS times when it is given up, adds 1 to
\* failed and 0 to success, and is not marked blocked; no worker ever makes
\* an attempt beyond MAX_RETRY_AFTER_ATTEMPTS.
C5_DeferredGivenUpAfterMaxAttempts ==
    /\ \A w \in Workers : attempt[w] <= MAX_RETRY_AFTER_ATTEMPTS
    /\ \A u \in Users :
          outcome[u].final = "Deferred" =>
              /\ outcome[u].gaveUpAfter = MAX_RETRY_AFTER_ATTEMPTS
              /\ outcome[u].fail = 1
              /\ outcome[u].succ = 0
              /\ ~blocked[u]

\* A recipient has been given up after rate limits only, next to one that
\* was delivered.
C5_Witness ==
    \E u, v \in Recipients :
        /\ outcome[u].final = "Deferred"
        /\ outcome[u].fail = 1
        /\ outcome[v].final = "Delivered"

\* C6 as stated: every recipient counted as RecipientUnreachable has its
\* blocked flag set to true (the flag is written before the recipient is
\* counted, and no later step of the run writes it).
C6_UnreachableIsBlocked ==
    \A u \in Users :
        outcome[u].final = "RecipientUnreachable" => blocked[u]

\* C6 amended: for every recipient counted as RecipientUnreachable the engine
\* has called set_user_blocked before counting it, the flag is true when that
\* call returned, and the recipient is counted failed exactly once whether
\* the call returned or raised.
C6_UnreachableMarkAttempted ==
    \A u \in Users :
        outcome[u].final = "RecipientUnreachable" =>
            /\ outcome[u].mark \in {"ok", "raised"}
            /\ outcome[u].mark = "ok" => blocked[u]
            /\ outcome[u].fail = 1
            /\ outcome[u].succ = 0

\* An unreachable recipient has been counted after set_user_blocked returned.
C6_Witness ==
    \E u \in Recipients :
        /\ outcome[u].final = "RecipientUnreachable"
        /\ outcome[u].mark = "ok"
        /\ blocked[u]

\* C7: a blocked flag is true only for a recipient whose last transport
\* answer was a permanent error (a recipient counted as Delivered, Failed or
\* Deferred is never blocked), a flag becomes true only in the step in which
\* set_user_blocked returns for that recipient, and no step sets a flag back
\* to false.
C7_BlockedOnlyWhenUnreachable ==
    /\ [](\A u \in Users :
            blocked[u] =>
                \/ outcome[u].final = "RecipientUnreachable"
                \/ /\ outcome[u].final = "none"
                   /\ \E w \in Workers : cur[w] = u /\ job[w].last = "perm")
    /\ [][\A u \in Users :
            /\ blocked[u] => blocked'[u]
            /\ (~blocked[u] /\ blocked'[u]) =>
                  \E w \in Workers :
                      wpc[w] = "mark" /\ cur[w] = u /\ job[w].last = "perm"]_vars

\* One recipient is blocked and counted unreachable while another, in the
\* same run, was delivered and is not blocked.
C7_Witness ==
    \E u, v \in Recipients :
        /\ blocked[u]
        /\ outcome[u].final = "RecipientUnreachable"
        /\ outcome[v].final = "Delivered"
        /\ ~blocked[v]

\* C8: when a run has finished, success is the number of recipients whose
\* last attempt was Delivered, failed is the number of all others, and these
\* are the values persisted.
C8_TerminalCountersPersisted ==
    (RunEnded /\ AllCounted) =>
        /\ success = Cardinality(CountedAs("Delivered"))
        /\ failed = total - Cardinality(CountedAs("Delivered"))
        /\ persisted = << update_broadcast(success, failed, "completed") >>

\* C9: run_broadcast with an empty recipient list does nothing: nothing is
\* queued, no worker, reporter or coordinator task exists, no send is made,
\* nothing is persisted and nothing is notified.
C9_EmptyListIsNoOp ==
    total = 0 =>
        /\ cpc \in {"idle", "noop"}
        /\ queue = << >>
        /\ unfinished = 0
        /\ \A w \in Workers : wpc[w] = "none" /\ cur[w] = None
        /\ rpc = "none"
        /\ faulty = {}
        /\ success = 0 /\ failed = 0 /\ batch_count = 0
        /\ \A u \in Users : outcome[u] = NoOutcome /\ ~blocked[u]
        /\ persisted = << >>
        /\ progressSent = 0
        /\ completionSent = 0

\* run_broadcast has returned for an empty list.
C9_Witness == cpc = "noop" /\ total = 0

\* C10: the free slots and the workers holding one add up to
\* BROADCAST_BATCH_SIZE, so at most BROADCAST_BATCH_SIZE recipients are
\* between acquisition and release; a worker holds a slot exactly while it
\* holds a recipient it has acquired for (every send, store call, sleep and
\* locked increment of _send_one_with_retry included), and none after the
\* recipient is finished, however it ended.
C10_SlotsBoundDelivery ==
    /\ sem >= 0
    /\ sem + Cardinality(Holding) = BROADCAST_BATCH_SIZE
    /\ \A w \in Workers :
          /\ w \in Holding => cur[w] # None /\ attempt[w] >= 1
          /\ wpc[w] \in {"none", "new", "get", "done", "crashed"} => cur[w] = None

\* Two workers hold a slot while a third has released its own after a
\* recipient that failed.
C10_Witness ==
    /\ Cardinality(Holding) = 2
    /\ sem = BROADCAST_BATCH_SIZE - 2
    /\ failed = 1
    /\ \E w \in Pool : w \notin Holding /\ cur[w] = None

\* The pacing sleeps begun so far.
PacingSleeps == pacing_sleeps

\* ceil(a / b)
CeilDiv(a, b) == (a + b - 1) \div b

\* C11: each time batch_count reaches a multiple of
\* BROADCAST_MESSAGES_PER_SECOND the worker whose increment reached it sleeps
\* before it takes its next item, and no other worker sleeps for that
\* crossing: the sleeps begun are one per multiple reached, a step starts at
\* most one sleep and only on reaching a multiple, a sleeping worker still
\* holds its recipient, and a run whose recipients are all through has made
\* at least ceil(total / BROADCAST_MESSAGES_PER_SECOND) - 1 sleeps.
C11_PacingSleepPerMultiple ==
    /\ [](/\ PacingSleeps = batch_count \div BROADCAST_MESSAGES_PER_SECOND
          /\ \A w \in Workers :
                wpc[w] = "pace" => cur[w] # None
          /\ batch_count = total =>
                PacingSleeps >= CeilDiv(total, BROADCAST_MESSAGES_PER_SECOND) - 1)
    /\ [][LET falling == {w \in Workers : wpc[w] # "pace" /\ wpc'[w] = "pace"}
          IN /\ Cardinality(falling) <= 1
             /\ falling # {} =>
                   /\ batch_count' > batch_count
                   /\ PaceDue(batch_count')
             /\ (batch_count' > batch_count /\ PaceDue(batch_count')) =>
                   falling # {}]_vars

\* A run of three or more recipients has passed a multiple of the budget,
\* its worker has slept and every recipient is through.
C11_Witness ==
    /\ total >= 3
    /\ batch_count = total
    /\ PacingSleeps >= 1
    /\ \A w \in Workers : wpc[w] # "pace"

\* The first transport call of the iteration recorded in calls was call c
\* and was answered r.
FirstCall(calls, c, r) == calls # << >> /\ calls[1] = <<c, r>>

\* C12: when the copy fails with a permanent error the recipient ends as
\* RecipientUnreachable at once: the copy stays the only transport call of
\* that iteration even when a payload is present, the worker goes to the
\* store call and the failed increment only, no further iteration is made,
\* and the recipient is counted failed once, as RecipientUnreachable.
C12_PermanentCopyEndsAtOnce ==
    /\ [](/\ \A w \in Workers :
                FirstCall(job[w].calls, "copy", "perm") =>
                    /\ Len(job[w].calls) = 1
                    /\ wpc[w] \in {"mark", "count", "batch", "pace"}
          /\ \A u \in Users :
                FirstCall(outcome[u].calls, "copy", "perm") =>
                    /\ Len(outcome[u].calls) = 1
                    /\ outcome[u].final = "RecipientUnreachable"
                    /\ outcome[u].fail = 1
                    /\ outcome[u].succ = 0)
    /\ [][\A w \in Workers :
            FirstCall(job[w].calls, "copy", "perm") =>
                \/ /\ job'[w].calls = job[w].calls
                   /\ attempt'[w] = attempt[w]
                   /\ cur'[w] = cur[w]
                \/ /\ cur'[w] # cur[w]
                   /\ outcome'[cur[w]].final = "RecipientUnreachable"]_vars

\* With a payload present, a recipient has been counted after a permanent
\* failure of its copy.
C12_Witness ==
    /\ has_payload
    /\ \E u \in Recipients :
          /\ outcome[u].calls = << <<"copy", "perm">> >>
          /\ outcome[u].final = "RecipientUnreachable"

\* C13: with a payload present, a copy that fails with an error that is
\* neither permanent nor a rate limit, whatever its type, is followed by
\* exactly one payload send in the same iteration, and that send's outcome is
\* the recipient's: if it succeeds the recipient adds 1 to success and 0 to
\* failed.
C13_FallbackAfterAnyOtherCopyError ==
    has_payload =>
        \A u \in Users :
            (\/ FirstCall(outcome[u].calls, "copy", "other")
             \/ FirstCall(outcome[u].calls, "copy", "exc")) =>
                /\ Len(outcome[u].calls) = 2
                /\ outcome[u].calls[2][1] = "payload"
                /\ outcome[u].calls[2][2] = "ok" =>
                      outcome[u].succ = 1 /\ outcome[u].fail = 0

\* The answer to the last transport call recorded in calls.
LastAnswer(calls) == IF calls = << >> THEN "none" ELSE calls[Len(calls)][2]

\* C14: a RetryAfter is treated as Deferred whichever call raised it (the
\* copy, a payload-only send or the payload fallback): the worker sleeps,
\* then starts the next iteration for the same recipient while iterations
\* remain and gives the recipient up as Deferred otherwise; neither the
\* worker nor the sleep ever sets the recipient's blocked flag.
C14_RetryAfterAlwaysDeferred ==
    /\ [](/\ \A w \in Workers :
                LastAnswer(job[w].calls) = "retry" =>
                    /\ job[w].mark = "none"
                    /\ ~blocked[cur[w]]
                    /\ \/ wpc[w] = "backoff"
                       \/ /\ attempt[w] = MAX_RETRY_AFTER_ATTEMPTS
                          /\ wpc[w] \in {"count", "batch", "pace"}
          /\ \A u \in Users :
                LastAnswer(outcome[u].calls) = "retry" =>
                    /\ outcome[u].final = "Deferred"
                    /\ outcome[u].mark = "none"
                    /\ ~blocked[u])
    /\ [][\A w \in Workers :
            (wpc[w] = "backoff" /\ job'[w] # job[w]
                /\ attempt[w] < MAX_RETRY_AFTER_ATTEMPTS) =>
                /\ attempt'[w] = attempt[w] + 1
                /\ cur'[w] = cur[w]
                /\ wpc'[w] = AttemptStart
                /\ job'[w].sleeps = job[w].sleeps + 1
                /\ blocked' = blocked]_vars

\* A worker that has already slept once for its recipient sleeps again, this
\* time for a RetryAfter of the payload fallback made after a failed copy.
C14_Witness ==
    \E w \in Workers :
        /\ wpc[w] = "backoff"
        /\ attempt[w] = 2
        /\ job[w].sleeps = 1
        /\ job[w].calls = << <<"copy", "other">>, <<"payload", "retry">> >>

\* C15: the reporter never delays a worker: state.lock is not held while a
\* progress notification is in flight, so no worker stands in line for the
\* lock, to count its recipient or to add to batch_count, while the sink is
\* answering.
C15_NoWorkerWaitsForSink ==
    \A w \in Workers :
        wpc[w] \in {"count", "batch"} => ~(lockHeld /\ rpc = "sending")

\* C16: the reporter starts a progress notification only on a tick that finds
\* success + failed at least progress_interval above the last reported total,
\* or equal to total, and then records success + failed as the last reported
\* total; no other step changes the last reported total, and only a
\* notification in flight adds to the notifications sent.
C16_ReportOnlyWhenDue ==
    [][LET current == success + failed
           due == \/ current - last_progress_at >= progress_interval
                  \/ current = total
       IN /\ (rpc # "sending" /\ rpc' = "sending") =>
                /\ rpc \in {"sleep", "lockwait"}
                /\ due
                /\ last_progress_at' = current
          /\ ~(rpc # "sending" /\ rpc' = "sending") =>
                last_progress_at' = last_progress_at
          /\ progressSent' # progressSent => rpc = "sending"]_vars

\* The reporter is sending a notification for the threshold, before the run
\* has drained.
C16_Witness ==
    /\ rpc = "sending"
    /\ last_progress_at = progress_interval
    /\ last_progress_at < total
    /\ progressSent = 0

\* C17: a progress notification whose send raises is swallowed.  The step in
\* which the send raises releases the lock and sends the reporter back to
\* its sleep (to its end when the stop event is set), not to another send;
\* the last reported total stays the one reported; success, failed and every
\* other part of the run are as they were, so the run goes on from the state
\* a working sink would have left; and the reporter task never ends with an
\* error.
C17_ProgressSendErrorSwallowed ==
    /\ [](rpc # "crashed")
    /\ [][progressRaised' # progressRaised =>
            /\ rpc = "sending"
            /\ rpc' = IF stop_progress THEN "done" ELSE "sleep"
            /\ lockHeld' = FALSE
            /\ progressSent' = progressSent + 1
            /\ UNCHANGED <<last_progress_at, success, failed, batch_count, pacing_sleeps,
                           cpc, queue, unfinished, sem, waiters, stop_progress,
                           wpc, cur, attempt, pend, job, blocked, persisted,
                           completionSent, outcome>>]_vars

\* After a progress send that raised, the reporter is sending the next
\* notification.
C17_Witness ==
    /\ progressRaised = 1
    /\ progressSent = 1
    /\ rpc = "sending"
    /\ last_progress_at = total

\* Every recipient is counted at most once, on the side its own delivery
\* outcome names, and the counters are the numbers of recipients so counted.
CountedOncePerRecipient ==
    /\ \A u \in Users :
          /\ outcome[u].succ + outcome[u].fail <= 1
          /\ outcome[u].final = "none" <=> outcome[u].succ + outcome[u].fail = 0
          /\ outcome[u].final = "Delivered" => outcome[u].succ = 1
          /\ outcome[u].final \in {"RecipientUnreachable", "Deferred", "Failed"} =>
                outcome[u].fail = 1
    /\ success = Cardinality({u \in Users : outcome[u].succ = 1})
    /\ failed = Cardinality({u \in Users : outcome[u].fail = 1})

\* Worker w lets go, in this step, of a recipient whose delivery failed
\* with an error of the transport (or of the store, after a permanent one).
FinishesFailed(w) ==
    /\ cur[w] # None
    /\ cur'[w] # cur[w]
    /\ outcome'[cur[w]].fail = 1
    /\ LastAnswer(outcome'[cur[w]].calls) \in {"retry", "perm", "other", "exc"}

\* C18: a failure of one recipient is isolated.  Whatever the transport or
\* the store raised for it, the recipient is counted exactly once, as failed
\* (no error leaves _send_one_with_retry uncounted), no other recipient's
\* count changes with it, and the worker that held it goes on: it dequeues
\* the next entry of the queue, or waits in queue.get() when the queue is
\* empty, and does not end with an error.
C18_RecipientFailureIsolated ==
    /\ [](CountedOncePerRecipient)
    /\ [][\A w \in Workers :
            FinishesFailed(w) =>
                /\ outcome'[cur[w]].succ = 0
                /\ queue # << >> => Len(queue') < Len(queue)
                /\ queue = << >> => wpc'[w] = "get"]_vars

\* C19: a worker task ends only by dequeuing a sentinel and returning: no
\* worker task ends with an exception, a worker that has ended holds no
\* recipient, and awaiting the workers after the drain does not end the
\* coordinator with an error.
C19_WorkersEndBySentinelOnly ==
    /\ \A w \in Workers :
          /\ wpc[w] # "crashed"
          /\ wpc[w] = "done" => cur[w] = None
    /\ cpc # "crashed"

\* C20: in every state of a run success + failed is at most total, and no
\* step decreases success or failed.
C20_CountersBoundedAndMonotone ==
    /\ [](success >= 0 /\ failed >= 0 /\ success + failed <= total)
    /\ [][success' >= success /\ failed' >= failed]_vars

\* A run of three recipients has counted them all, some delivered and some
\* failed.
C20_Witness ==
    /\ total = 3
    /\ success + failed = total
    /\ success > 0
    /\ failed > 0

\* The recipient u is an entry of the queue.
InQueue(u) == \E i \in 1..Len(queue) : queue[i] = u

\* The workers that hold the recipient u.
Holders(u) == {w \in Workers : cur[w] = u}

\* The queue q is what is left of the queue p after entries were taken from
\* its head.
IsSuffix(q, p) ==
    /\ Len(q) <= Len(p)
    /\ \A i \in 1..Len(q) : q[i] = p[Len(p) - Len(q) + i]

\* The queue has been seeded.
Seeded == cpc \in {"join", "gather", "done", "crashed"}

\* Every worker task of the run has ended.
WorkersEnded == Seeded /\ \A w \in Pool : wpc[w] \in {"done", "crashed"}

\* C21: each seeded recipient is dequeued exactly once and by one worker: it
\* is in the queue until it is dequeued and never again, at most one worker
\* holds it, and that worker holds it from the dequeue until it has been
\* counted; the queue only ever loses entries at its head after the seeding;
\* a further attempt is made by the worker that holds the recipient, without
\* letting it go; and when every worker has ended each recipient has been
\* dequeued once and has added exactly 1 to success + failed.
C21_DequeuedOnceNeverRequeued ==
    /\ [](/\ \A u \in Users :
                /\ outcome[u].dequeues <= 1
                /\ outcome[u].succ + outcome[u].fail <= outcome[u].dequeues
                /\ Cardinality(Holders(u)) <= 1
                /\ (Seeded /\ u \in Recipients) =>
                      /\ InQueue(u) <=> outcome[u].dequeues = 0
                      /\ Holders(u) # {} => outcome[u].dequeues = 1
                      /\ (outcome[u].dequeues = 1
                             /\ outcome[u].succ + outcome[u].fail = 0) =>
                            Holders(u) # {}
          /\ WorkersEnded =>
                \A u \in Recipients :
                    /\ outcome[u].dequeues = 1
                    /\ outcome[u].succ + outcome[u].fail = 1)
    /\ [][/\ Seeded => IsSuffix(queue', queue)
          /\ \A w \in Workers :
                (attempt[w] >= 1 /\ attempt'[w] > attempt[w]) =>
                    /\ cur'[w] = cur[w]
                    /\ outcome'[cur[w]].dequeues = 1]_vars

\* Every worker of a three-recipient run has ended; one recipient was given
\* up after MAX_RETRY_AFTER_ATTEMPTS attempts by the worker that dequeued it.
C21_Witness ==
    /\ total = 3
    /\ WorkersEnded
    /\ \E u \in Recipients :
          /\ outcome[u].final = "Deferred"
          /\ outcome[u].dequeues = 1
          /\ outcome[u].fail = 1

\* Nothing of a run has happened: the queue is empty, no task of the pool or
\* reporter exists, no recipient has been attempted, Progress is zero, and
\* nothing has been persisted or notified.
NothingDone ==
    /\ queue = << >>
    /\ unfinished = 0
    /\ sem = BROADCAST_BATCH_SIZE
    /\ \A w \in Workers :
          wpc[w] = "none" /\ cur[w] = None /\ attempt[w] = 0 /\ job[w] = NoJob
    /\ rpc = "none"
    /\ success = 0 /\ failed = 0 /\ batch_count = 0 /\ last_progress_at = 0
    /\ \A u \in Users : outcome[u] = NoOutcome /\ ~blocked[u]
    /\ faulty = {}
    /\ persisted = << >>
    /\ progressSent = 0
    /\ completionSent = 0

\* C22: run_broadcast only schedules the run.  The step in which it is
\* called changes nothing but the parameters of the run and the existence of
\* the background task; when it has returned for a non-empty list nothing has
\* been enqueued, attempted, counted, persisted or notified; and the first
\* such effect is made by the first step of the background task _run.
C22_StartOnlySchedules ==
    /\ [](cpc \in {"idle", "noop", "scheduled"} => NothingDone)
    /\ [][/\ cpc = "idle" =>
                /\ cpc' \in {"noop", "scheduled"}
                /\ cpc' = "scheduled" <=> total' >= 1
                /\ NothingDone'
          /\ (NothingDone /\ ~NothingDone') =>
                cpc = "scheduled" /\ cpc' = "join"]_vars

\* run_broadcast has returned for a list of MaxUsers recipients and the
\* background task has not run yet.
C22_Witness ==
    /\ cpc = "scheduled"
    /\ total = MaxUsers
    /\ queue = << >>

\* C23: a worker sleeps for a RetryAfter only when another attempt follows:
\* no worker is in the backoff sleep after the last allowed attempt, and a
\* worker that has made n attempts for its recipient has slept at most n - 1
\* backoff sleeps to their end.
C23_NoSleepAfterLastAttempt ==
    \A w \in Workers :
        /\ wpc[w] = "backoff" => HasNextAttempt(attempt[w])
        /\ attempt[w] >= 1 => job[w].sleeps <= attempt[w] - 1

\* The reporter task has ended: it returned or was cancelled.
ReporterEnded == rpc \in {"done", "cancelled"}

\* C24: the coordinator stops the reporter and waits for its end before it
\* persists the outcome: once the outcome has been persisted, the completion
\* notification sent or the coordinator task has ended, the stop event is set
\* and the reporter task has ended, so no progress notification follows.
C24_ReporterEndsBeforePersist ==
    (Len(persisted) > 0 \/ completionSent > 0 \/ RunEnded) =>
        stop_progress /\ ReporterEnded

\* The size the pool of a run is to have: min(K, total).
PoolSize ==
    IF total <= BROADCAST_BATCH_SIZE THEN total ELSE BROADCAST_BATCH_SIZE

\* The worker tasks that have been created.
Created == {w \in Workers : wpc[w] # "none"}

\* The sentinels still in the queue.
SentinelsQueued == Cardinality({i \in 1..Len(queue) : queue[i] = None})

\* C25: the first step of _run seeds the queue with the total recipients in
\* list order followed by min(K, total) sentinels and creates min(K, total)
\* worker tasks, as many as there are sentinels; no worker is created later
\* and no sentinel is added later.
C25_SeedMatchesPool ==
    /\ [][(cpc = "scheduled" /\ cpc' # cpc) =>
            /\ total >= 1
            /\ cpc' = "join"
            /\ Len(queue') = total + PoolSize
            /\ \A i \in 1..total : queue'[i] = user_ids[i]
            /\ \A i \in (total + 1)..(total + PoolSize) : queue'[i] = None
            /\ unfinished' = Len(queue')
            /\ Created' = 1..PoolSize
            /\ \A w \in Created' : wpc'[w] = "new"]_vars
    /\ [](Seeded =>
            /\ Cardinality(Created) = PoolSize
            /\ SentinelsQueued <= PoolSize)

\* A run of more recipients than BROADCAST_BATCH_SIZE has just been seeded:
\* the pool is full and as many sentinels follow the recipients.
C25_Witness ==
    /\ cpc = "join"
    /\ total > BROADCAST_BATCH_SIZE
    /\ Len(queue) = total + BROADCAST_BATCH_SIZE
    /\ SentinelsQueued = BROADCAST_BATCH_SIZE
    /\ \A w \in Workers : wpc[w] = "new"

\* The recipients that have been added to success or to failed.
CountedRecipients == {u \in Users : outcome[u].succ + outcome[u].fail = 1}

\* The workers between the increment of success or failed and the increment
\* of batch_count: in line for state.lock for the second time.
BetweenIncrements == {w \in Workers : wpc[w] = "batch"}

\* C26: batch_count is incremented once for every recipient a worker
\* finishes, after the recipient has been counted and before the worker lets
\* it go: batch_count is the number of counted recipients that are no longer
\* held or are held through the pacing sleep, it equals success + failed
\* less the workers between the two increments, no step takes from it, a
\* worker that lets a recipient go has added to it for that recipient, and
\* it equals total when every worker has ended.
C26_BatchCountPerRecipient ==
    /\ [](/\ batch_count =
                Cardinality({u \in CountedRecipients :
                                \A w \in Holders(u) : wpc[w] = "pace"})
          /\ batch_count = success + failed - Cardinality(BetweenIncrements)
          /\ \A w \in BetweenIncrements : cur[w] \in CountedRecipients
          /\ WorkersEnded => batch_count = total)
    /\ [][/\ batch_count' >= batch_count
          /\ \A w \in Workers :
                (cur[w] # None /\ cur'[w] # cur[w]) =>
                    /\ cur[w] \in CountedRecipients'
                    /\ wpc[w] \in {"pace", "count", "batch", "mark",
                                   "copy", "payload", "backoff"}
                    /\ wpc[w] # "pace" => batch_count' > batch_count]_vars

\* Every worker of a four-recipient run has ended, with recipients
\* delivered and recipients failed among the four counted.
C26_Witness ==
    /\ total = 4
    /\ WorkersEnded
    /\ batch_count = total
    /\ success >= 1
    /\ failed >= 1

\* The transport calls recorded in calls that were answered r.
Answers(calls, r) == {i \in 1..Len(calls) : calls[i][2] = r}

\* C27: at most one transport send succeeds for a recipient.  A worker whose
\* last send succeeded makes no further send for the recipient it holds: it
\* is about to add 1 to success or has done so, and to failed nothing; a
\* worker waiting for the answer to a send has had no successful answer for
\* its recipient and the recipient has no success count; and a recipient's
\* success count is at most 1, with one successful send, the last made for
\* it, behind it.
C27_AtMostOneSuccessfulSend ==
    /\ \A w \in Workers :
          /\ job[w].last = "ok" =>
                /\ wpc[w] \in {"count", "batch", "pace"}
                /\ wpc[w] = "count" => pend[w] = "success"
                /\ wpc[w] \in {"batch", "pace"} =>
                      outcome[cur[w]].succ = 1 /\ outcome[cur[w]].fail = 0
                /\ Answers(job[w].calls, "ok") = {Len(job[w].calls)}
          /\ wpc[w] \in {"copy", "payload", "backoff", "mark"} =>
                /\ job[w].last # "ok"
                /\ Answers(job[w].calls, "ok") = {}
                /\ outcome[cur[w]].succ = 0
    /\ \A u \in Users :
          /\ outcome[u].succ <= 1
          /\ outcome[u].succ = 1 =>
                /\ outcome[u].fail = 0
                /\ Answers(outcome[u].calls, "ok") = {Len(outcome[u].calls)}

\* A recipient has been delivered by the payload fallback on a second
\* attempt, after a rate limit and a failed copy, and counted once.
C27_Witness ==
    \E w \in Workers :
        /\ wpc[w] = "pace"
        /\ attempt[w] = 2
        /\ job[w].sleeps = 1
        /\ job[w].calls = << <<"copy", "other">>, <<"payload", "ok">> >>
        /\ outcome[cur[w]].succ = 1
        /\ outcome[cur[w]].fail = 0

\* The entries that have been put and whose processing has not ended: those
\* still in the queue and the recipients held by workers.
Unprocessed == Len(queue) + Cardinality({w \in Workers : cur[w] # None})

\* C28: every dequeued entry is acknowledged exactly once: the queue's
\* unfinished count is the number of entries not yet processed, so it is zero
\* exactly when the last entry has been processed, and no task_done() call
\* is one too many (no worker ends with its ValueError).
C28_AcknowledgedExactlyOnce ==
    /\ Seeded => unfinished = Unprocessed
    /\ \A w \in Workers : wpc[w] # "crashed"

\* C29: the acquire of the concurrency gate never waits.  The pool has at
\* most BROADCAST_BATCH_SIZE workers and a worker holds at most one slot, so
\* the free slots are at least BROADCAST_BATCH_SIZE less the workers holding
\* one, a slot is free whenever a worker of the pool holds none, and no
\* worker is ever queued on the semaphore.
C29_AcquireNeverWaits ==
    /\ Cardinality(Created) <= BROADCAST_BATCH_SIZE
    /\ sem >= BROADCAST_BATCH_SIZE - Cardinality(Holding)
    /\ Cardinality(Holding) < Cardinality(Created) => sem >= 1
    /\ \A w \in Workers : wpc[w] # "acquire"

\* Every worker of a full pool holds a slot, none is free, and a recipient
\* is still waiting in the queue.
C29_Witness ==
    /\ Cardinality(Holding) = BROADCAST_BATCH_SIZE
    /\ sem = 0
    /\ \E u \in Recipients : InQueue(u)

\* C30: no task is left running after the run: when the coordinator task
\* has ended, every worker task and the reporter task have ended, and no
\* task stands in line for state.lock or holds it.
C30_NoTaskOutlivesRun ==
    RunEnded =>
        /\ WorkersEnded
        /\ ReporterEnded
        /\ waiters = << >>
        /\ ~lockHeld

\* Worker w starts a further attempt for its recipient in this step.
Retries(w) == attempt[w] >= 1 /\ attempt'[w] = attempt[w] + 1

\* C31: with a source message given, every attempt starts with the copy,
\* also the one that follows a RetryAfter of the payload fallback: a worker
\* that starts a further attempt is waiting for the copy with no call made
\* yet in that attempt; the transport calls of an attempt are the copy alone
\* or the copy followed by one payload send, made only after that attempt's
\* copy failed with a Forbidden/BadRequest that is not permanent; so each
\* attempt has one copy and at most one payload send.
C31_RetryStartsWithCopy ==
    /\ [](use_copy =>
            /\ \A w \in Workers :
                  /\ wpc[w] = "copy" => job[w].calls = << >>
                  /\ wpc[w] = "payload" =>
                        has_payload /\ job[w].calls = << <<"copy", "other">> >>
                  /\ job[w].calls # << >> =>
                        /\ job[w].calls[1][1] = "copy"
                        /\ Len(job[w].calls) <= 2
                        /\ Len(job[w].calls) = 2 =>
                              /\ job[w].calls[1] = <<"copy", "other">>
                              /\ job[w].calls[2][1] = "payload"
            /\ \A u \in Users :
                  outcome[u].final # "none" =>
                      /\ outcome[u].calls # << >>
                      /\ outcome[u].calls[1][1] = "copy"
                      /\ Len(outcome[u].calls) <= 2
                      /\ Len(outcome[u].calls) = 2 =>
                            /\ outcome[u].calls[1] = <<"copy", "other">>
                            /\ outcome[u].calls[2][1] = "payload")
    /\ [][use_copy =>
            \A w \in Workers :
                Retries(w) =>
                    /\ wpc[w] = "backoff"
                    /\ LastAnswer(job[w].calls) = "retry"
                    /\ cur'[w] = cur[w]
                    /\ wpc'[w] = "copy"
                    /\ job'[w].calls = << >>]_vars

\* With a source message and a payload given, a worker has slept for a
\* RetryAfter and is waiting for the copy of its second attempt.
C31_Witness ==
    /\ use_copy
    /\ has_payload
    /\ \E w \in Workers :
          /\ wpc[w] = "copy"
          /\ attempt[w] = 2
          /\ job[w].sleeps = 1
          /\ job[w].last = "retry"
          /\ job[w].calls = << >>

\* The user's awaiting_broadcast flag, as a number of prompts still open.
Awaiting(u) == IF user_data[u].awaiting_broadcast THEN 1 ELSE 0

\* C32: a broadcast run is started only by a message in the admin group from
\* a user who passes the admin check and whose own awaiting_broadcast flag
\* was set by a Broadcast prompt; the flag is cleared before run_broadcast is
\* called, and every message of a waiting user that reaches
\* handle_admin_message clears it whether or not a run follows (rejected,
\* unsupported, no users), so the runs a user started plus the prompt still
\* open never exceed the prompts the user was shown.
C32_OnePromptOneRun ==
    /\ [](\A u \in PanelUsers :
            /\ runs[u] + Awaiting(u) <= prompts[u]
            /\ user_data[u].awaiting_broadcast => is_admin(u))
    /\ [](last_run # NoRun =>
            /\ last_run.by \in PanelUsers
            /\ last_run.chat = ADMIN_GROUP_ID
            /\ is_admin(last_run.by)
            /\ ~last_run.awaiting
            /\ last_run.total >= 1
            /\ last_run.has_payload)
    /\ [][\A u \in PanelUsers :
            /\ runs'[u] # runs[u] =>
                   /\ runs'[u] = runs[u] + 1
                   /\ user_data[u].awaiting_broadcast
                   /\ ~user_data'[u].awaiting_broadcast
                   /\ last_run'.by = u
                   /\ \A v \in PanelUsers \ {u} :
                          runs'[v] = runs[v] /\ user_data'[v] = user_data[v]
            /\ (~user_data[u].awaiting_broadcast
                    /\ user_data'[u].awaiting_broadcast) =>
                   prompts'[u] = prompts[u] + 1
            /\ (user_data[u].awaiting_broadcast
                    /\ user_data'[u].awaiting_broadcast) =>
                   ~\E chat \in Chats, kind \in MessageKinds,
                      reply \in BOOLEAN, n \in 0..MaxUsers, raises \in BOOLEAN :
                          handle_admin_message(u, chat, kind, reply, n, raises)]_vars

\* With ADMIN_USER_IDS naming one user, that user was shown two prompts,
\* started one run with one of them and has no prompt open any more.
C32_Witness ==
    \E u \in PanelUsers :
        /\ ADMIN_USER_IDS = {u}
        /\ prompts[u] = 2
        /\ runs[u] = 1
        /\ ~user_data[u].awaiting_broadcast
        /\ last_run.by = u
        /\ last_run.total >= 1

====
